---- MODULE Spec2Model ----
(***************************************************************************)
(* Model of the HLDS master server (src/main.go): the server registry      *)
(* guarded by one RWMutex, the UDP heartbeat loop, the cleaner/query       *)
(* dispatcher, the A2S_INFO status query with its response parser, and the *)
(* web handler that lists the registry.                                    *)
(***************************************************************************)
EXTENDS Integers, Sequences, FiniteSets, TLC

\* ------------------------------------------------------------------ bounds

\* The addresses heartbeats arrive from (remoteAddr.String()).
Addr == {"a1", "a2"}

\* The clock (time.Now()) runs from 0 to MaxTime.
MaxTime == 2

\* 5*time.Minute of line 167, in clock ticks (scaled down).
StaleThreshold == 1

\* make([]byte, 1400) of line 198, scaled down to the shortest buffer that
\* still holds a complete response with two spare bytes.
RespBufLen == 16

\* Cap on the number of query goroutines alive at once (the code has none).
MaxInFlight == 2

\* make([]byte, 1024) of line 101, scaled down.
UdpBufLen == 2

\* resp[5:] of line 205 and n < 5 of line 200.
HeaderLen == 5

\* ------------------------------------------------------------------- state

VARIABLES
  now,      \* time.Now()
  servers,  \* manager.servers: address -> heap cell
  heap,     \* the ServerInfo values
  mu,       \* manager.mu: w the writer holding it ("" for none), r the readers
  udp,      \* startUDPServer's loop: pc and the sender being registered
  sw,       \* startCleanerAndQuery's loop
  queries,  \* the queryServerDetails goroutines alive, in dispatch order
  web       \* the handleWeb calls

vars == <<now, servers, heap, mu, udp, sw, queries, web>>

\* ------------------------------------------------------------ small helpers

Min(a, b) == IF a < b THEN a ELSE b

Range(s) == {s[i] : i \in 1..Len(s)}

\* The sequence s without its i-th element.
RemoveAt(s, i) == SubSeq(s, 1, i - 1) \o SubSeq(s, i + 1, Len(s))

\* "Scanning..." as bytes, the Name a new record is given (line 126).
Placeholder == <<83, 99, 97, 110, 110, 105, 110, 103, 46, 46, 46>>

\* --------------------------------------------------------- response parser

\* bytes.Buffer.Next(n): the next n unread bytes, or all of them when fewer
\* are left.  A buffer is modelled by its unread portion.
BufNext(b, n) ==
  [out |-> SubSeq(b, 1, Min(n, Len(b))),
   rest |-> SubSeq(b, Min(n, Len(b)) + 1, Len(b))]

\* bytes.IndexByte: position of the first c in b, 0 when there is none.
IndexByte(b, c) ==
  IF \E i \in 1..Len(b) : b[i] = c
  THEN CHOOSE i \in 1..Len(b) : b[i] = c /\ \A j \in 1..(i - 1) : b[j] # c
  ELSE 0

\* bytes.Buffer.ReadString(delim): up to and including the first delim; when
\* there is none, all unread bytes (and io.EOF, which the caller discards).
BufReadString(b, delim) ==
  LET i == IndexByte(b, delim)
  IN  IF i = 0
      THEN [str |-> b, rest |-> <<>>]
      ELSE [str |-> SubSeq(b, 1, i), rest |-> SubSeq(b, i + 1, Len(b))]

\* The closure readString of lines 207-213: drops the last byte of whatever
\* ReadString returned.
readString(b) ==
  LET r == BufReadString(b, 0)
  IN  [str  |-> IF Len(r.str) > 0 THEN SubSeq(r.str, 1, Len(r.str) - 1) ELSE <<>>,
       rest |-> r.rest]

\* conn.Read(resp) into resp := make([]byte, 1400): the first n bytes are the
\* datagram's (cut to the buffer's length), the rest stay zero.
ReadInto(dgram) ==
  [i \in 1..RespBufLen |-> IF i <= Len(dgram) THEN dgram[i] ELSE 0]

ReadCount(dgram) == Min(Len(dgram), RespBufLen)

NoFields == [ok |-> FALSE, name |-> <<>>, mapName |-> <<>>, players |-> 0, maxPlayers |-> 0]

\* Skipping the application id: buffer.Next(2) with one byte too few.
ParseResponse_ShortId(resp) ==
  LET b0 == SubSeq(resp, HeaderLen + 1, Len(resp))
      b1 == BufNext(b0, 1).rest
      nm == readString(b1)
      mp == readString(nm.rest)
      fo == readString(mp.rest)
      ga == readString(fo.rest)
      b2 == BufNext(ga.rest, 1).rest
  IN  IF Len(b2) < 2
      THEN NoFields
      ELSE [ok |-> TRUE, name |-> nm.str, mapName |-> mp.str,
            players |-> b2[1], maxPlayers |-> b2[2]]

\* Lines 205-235: the parse of the whole receive buffer resp (all RespBufLen
\* bytes of it, not resp[:n]).  ok is FALSE on the early return of line 232.
ParseResponse(resp) ==
  LET b0 == SubSeq(resp, HeaderLen + 1, Len(resp))
      b1 == BufNext(b0, 1).rest
      nm == readString(b1)
      mp == readString(nm.rest)
      fo == readString(mp.rest)
      ga == readString(fo.rest)
      b2 == BufNext(ga.rest, 2).rest
  IN  IF Len(b2) < 2
      THEN NoFields
      ELSE [ok |-> TRUE, name |-> nm.str, mapName |-> mp.str,
            players |-> b2[1], maxPlayers |-> b2[2]]

\* The buffer as the length check of line 231 finds it: after the protocol
\* byte, the four strings and the application id.
BufferAtCounts(resp) ==
  LET b0 == SubSeq(resp, HeaderLen + 1, Len(resp))
      b1 == BufNext(b0, 1).rest
      nm == readString(b1)
      mp == readString(nm.rest)
      fo == readString(mp.rest)
      ga == readString(fo.rest)
  IN  BufNext(ga.rest, 2).rest

\* Lines 234-235 index the slices returned by buffer.Next(1) at 0: a run-time
\* panic when one of them is empty.  They are reached when line 231 does not
\* return.
IndexFault(resp) ==
  LET b == BufferAtCounts(resp)
      p == BufNext(b, 1)
      m == BufNext(p.rest, 1)
  IN  ~(Len(b) < 2) /\ (Len(p.out) = 0 \/ Len(m.out) = 0)

\* ---------------------------------------------------------------- registry

\* Heap cells for ServerInfo values; manager.servers maps an address to one.
ObjId == 1..4

\* The web handlers that may run at once (net/http runs each in a goroutine).
Web == {"w1"}

\* A heap cell no live pointer refers to.
FreeCell == [Address |-> "", LastSeen |-> 0, Name |-> <<>>, Map |-> <<>>,
             Players |-> 0, MaxPlayers |-> 0]

\* &ServerInfo{Address: address, LastSeen: time.Now(), Name: "Scanning..."}
NewServerInfo(address, t) ==
  [Address |-> address, LastSeen |-> t, Name |-> Placeholder, Map |-> <<>>,
   Players |-> 0, MaxPlayers |-> 0]

Restrict(f, S) == [x \in S |-> f[x]]

\* The cell a new ServerInfo is allocated in.
NewObj(h) == CHOOSE o \in ObjId : h[o] = FreeCell /\ \A p \in 1..(o - 1) : h[p] # FreeCell

\* registerServer without the else branch: an unknown address is ignored.
registerServer_TouchOnly(s, h, address, t) ==
  IF address \in DOMAIN s
  THEN [servers |-> s, heap |-> [h EXCEPT ![s[address]].LastSeen = t]]
  ELSE [servers |-> s, heap |-> h]

\* registerServer that stores a new address into a map of its own, dropping
\* the entries made by others.
registerServer_OwnMap(s, h, address, t) ==
  IF address \in DOMAIN s
  THEN [servers |-> s, heap |-> [h EXCEPT ![s[address]].LastSeen = t]]
  ELSE LET o == NewObj(h)
       IN  [servers |-> [x \in {address} |-> o],
            heap |-> [h EXCEPT ![o] = NewServerInfo(address, t)]]

\* registerServer that stores a fresh ServerInfo on every heartbeat.
registerServer_Replace(s, h, address, t) ==
  LET o == IF address \in DOMAIN s THEN s[address] ELSE NewObj(h)
  IN  [servers |-> [x \in DOMAIN s \cup {address} |-> IF x = address THEN o ELSE s[x]],
       heap |-> [h EXCEPT ![o] = NewServerInfo(address, t)]]

\* The body of registerServer (lines 119-128) on map s and heap h at time t.
registerServer(s, h, address, t) ==
  IF address \in DOMAIN s
  THEN [servers |-> s, heap |-> [h EXCEPT ![s[address]].LastSeen = t]]
  ELSE LET o == NewObj(h)
       IN  [servers |-> [x \in DOMAIN s \cup {address} |->
                           IF x = address THEN o ELSE s[x]],
            heap |-> [h EXCEPT ![o] = NewServerInfo(address, t)]]

\* The subtraction the other way round: no record is ever stale.
Stale_Reversed(rec, t) == rec.LastSeen - t > StaleThreshold

\* The comparison with >= for >.
Stale_AtThreshold(rec, t) == t - rec.LastSeen >= StaleThreshold

\* time.Since(s.LastSeen) > 5*time.Minute (line 167).
Stale(rec, t) == t - rec.LastSeen > StaleThreshold

\* The write-back that fills in a record only once: a record whose Name is no
\* longer the placeholder is left alone.
WriteBack_FirstWins(s, h, address, f) ==
  IF address \in DOMAIN s /\ h[s[address]].Name = Placeholder
  THEN [servers |-> s,
        heap |-> [h EXCEPT ![s[address]] =
                    [@ EXCEPT !.Name = f.name, !.Map = f.mapName,
                              !.Players = f.players, !.MaxPlayers = f.maxPlayers]]]
  ELSE [servers |-> s, heap |-> h]

\* The write-back that stores the two strings and forgets the two counts.
WriteBack_StringsOnly(s, h, address, f) ==
  IF address \in DOMAIN s
  THEN [servers |-> s,
        heap |-> [h EXCEPT ![s[address]] =
                    [@ EXCEPT !.Name = f.name, !.Map = f.mapName]]]
  ELSE [servers |-> s, heap |-> h]

\* The write-back without the existence check: an absent entry is stored anew.
WriteBack_Create(s, h, address, f) ==
  LET o == IF address \in DOMAIN s THEN s[address] ELSE NewObj(h)
      old == IF address \in DOMAIN s THEN h[o] ELSE NewServerInfo(address, now)
  IN  [servers |-> [x \in DOMAIN s \cup {address} |-> IF x = address THEN o ELSE s[x]],
       heap |-> [h EXCEPT ![o] =
                   [old EXCEPT !.Name = f.name, !.Map = f.mapName,
                               !.Players = f.players, !.MaxPlayers = f.maxPlayers]]]

\* The write-back that also counts the answer as a sign of life.
WriteBack_Touch(s, h, address, f) ==
  IF address \in DOMAIN s
  THEN [servers |-> s,
        heap |-> [h EXCEPT ![s[address]] =
                    [@ EXCEPT !.LastSeen = now,
                              !.Name = f.name, !.Map = f.mapName,
                              !.Players = f.players, !.MaxPlayers = f.maxPlayers]]]
  ELSE [servers |-> s, heap |-> h]

\* Lines 239-244: the write-back of the parsed fields f, on map s and heap h.
WriteBack(s, h, address, f) ==
  IF address \in DOMAIN s
  THEN [servers |-> s,
        heap |-> [h EXCEPT ![s[address]] =
                    [@ EXCEPT !.Name = f.name, !.Map = f.mapName,
                              !.Players = f.players, !.MaxPlayers = f.maxPlayers]]]
  ELSE [servers |-> s, heap |-> h]

\* The comparison with Before for After.
less_Ascending(x, y) == x.LastSeen < y.LastSeen

\* The comparison handed to sort.Slice (line 142), on two ServerInfo values.
less(x, y) == x.LastSeen > y.LastSeen

Swap(l, i, j) == [l EXCEPT ![i] = l[j], ![j] = l[i]]

\* sort.Slice on a slice of fewer than 12 elements is an insertion sort:
\* element j moves left while it is less than its left neighbour.
RECURSIVE InsertLeft(_, _, _)
InsertLeft(l, j, h) ==
  IF j > 1 /\ less(h[l[j]], h[l[j - 1]])
  THEN InsertLeft(Swap(l, j, j - 1), j - 1, h)
  ELSE l

RECURSIVE InsertionSortFrom(_, _, _)
InsertionSortFrom(l, i, h) ==
  IF i > Len(l) THEN l ELSE InsertionSortFrom(InsertLeft(l, i, h), i + 1, h)

SortSlice(l, h) == InsertionSortFrom(l, 2, h)

\* The orders in which a range over a map may yield the keys in S.
Orders(S) ==
  {q \in [1..Cardinality(S) -> S] : \A i, j \in 1..Cardinality(S) : q[i] = q[j] => i = j}

\* A Lock that does not wait for the readers.
CanLock_IgnoreReaders(m) == m.w = ""

\* An RLock that does not wait for the writer.
CanRLock_IgnoreWriter(m) == TRUE

\* sync.RWMutex: Lock needs no writer and no reader, RLock needs no writer.
CanLock(m) == m.w = "" /\ m.r = {}

CanRLock(m) == m.w = ""

\* ------------------------------------------------------- processes at rest

IdleSweeper == [pc |-> "tick", todo |-> {}, checkList |-> <<>>, start |-> {}, removed |-> {}]

IdleWeb == [pc |-> "idle", list |-> <<>>, seen |-> <<>>]

IdleUdp == [pc |-> "recv", addr |-> ""]

Init ==
  /\ now = 0
  /\ servers = [x \in {} |-> 1]
  /\ heap = [o \in ObjId |-> FreeCell]
  /\ mu = [w |-> "", r |-> {}]
  /\ udp = IdleUdp
  /\ sw = IdleSweeper
  /\ queries = <<>>
  /\ web = [w \in Web |-> IdleWeb]

\* ------------------------------------------------------------------- clock

Tick ==
  /\ now < MaxTime
  /\ now' = now + 1
  /\ UNCHANGED <<servers, heap, mu, udp, sw, queries, web>>

\* --------------------------------------------------------- heartbeat ingest

\* Lines 103-110: a datagram of n bytes from address arrives; n > 0 calls
\* registerServer, which then waits for the lock.
UdpReceive(address, n) ==
  /\ udp.pc = "recv"
  /\ udp' = IF n > 0 THEN [pc |-> "call", addr |-> address] ELSE udp
  /\ UNCHANGED <<now, servers, heap, mu, sw, queries, web>>

\* Lines 104-106: ReadFromUDP fails and the loop continues.
UdpReadError ==
  /\ udp.pc = "recv"
  /\ UNCHANGED vars

\* manager.mu.Lock() of line 116.
RegisterLock ==
  /\ udp.pc = "call"
  /\ CanLock(mu)
  /\ mu' = [mu EXCEPT !.w = "udp"]
  /\ udp' = [udp EXCEPT !.pc = "locked"]
  /\ UNCHANGED <<now, servers, heap, sw, queries, web>>

\* registerServer without the deferred Unlock of line 117.
RegisterApply_NoUnlock ==
  /\ udp.pc = "locked"
  /\ LET r == registerServer(servers, heap, udp.addr, now)
     IN  servers' = r.servers /\ heap' = r.heap
  /\ udp' = IdleUdp
  /\ UNCHANGED <<now, mu, sw, queries, web>>

\* Lines 119-128 and the deferred Unlock.
RegisterApply ==
  /\ udp.pc = "locked"
  /\ LET r == registerServer(servers, heap, udp.addr, now)
     IN  servers' = r.servers /\ heap' = r.heap
  /\ mu' = [mu EXCEPT !.w = ""]
  /\ udp' = IdleUdp
  /\ UNCHANGED <<now, sw, queries, web>>

\* ------------------------------------------------------ cleaner and dispatch

\* The cell of a deleted map entry is garbage unless a handler's list holds it.
Release(h, o) ==
  IF \E w \in Web : o \in Range(web[w].list) THEN h ELSE [h EXCEPT ![o] = FreeCell]

\* A queryServerDetails goroutine as started by line 178.
NewQuery(address) ==
  [addr |-> address, pc |-> "dial", n |-> 0, resp |-> <<>>, f |-> NoFields]

\* The entries a sweep starting now would dispatch a query for.
Fresh == {a \in DOMAIN servers : ~Stale(heap[servers[a]], now)}

\* The ticker fires (line 160); the loop goes on to take the lock.
SweepTick ==
  /\ sw.pc = "tick"
  /\ sw' = [sw EXCEPT !.pc = "lock"]
  /\ UNCHANGED <<now, servers, heap, mu, udp, queries, web>>

\* manager.mu.Lock() of line 161; the range of line 165 starts.  The sweep
\* waits while its queries would exceed MaxInFlight.
SweepLock ==
  /\ sw.pc = "lock"
  /\ CanLock(mu)
  /\ Len(queries) + Cardinality(Fresh) <= MaxInFlight
  /\ mu' = [mu EXCEPT !.w = "sweeper"]
  /\ sw' = [pc |-> "scan", todo |-> DOMAIN servers, checkList |-> <<>>,
            start |-> DOMAIN servers, removed |-> {}]
  /\ UNCHANGED <<now, servers, heap, udp, queries, web>>

\* The iteration without the continue of line 170: a deleted address is
\* appended to checkList as well.
SweepExamine_NoContinue(address) ==
  /\ sw.pc = "scan"
  /\ address \in sw.todo
  /\ IF Stale(heap[servers[address]], now)
     THEN /\ servers' = Restrict(servers, DOMAIN servers \ {address})
          /\ heap' = Release(heap, servers[address])
          /\ sw' = [sw EXCEPT !.todo = @ \ {address}, !.removed = @ \cup {address},
                              !.checkList = Append(@, address)]
     ELSE /\ sw' = [sw EXCEPT !.todo = @ \ {address},
                              !.checkList = Append(@, address)]
          /\ UNCHANGED <<servers, heap>>
  /\ UNCHANGED <<now, mu, udp, queries, web>>

\* One iteration of the range (lines 165-173), on whichever entry comes next.
SweepExamine(address) ==
  /\ sw.pc = "scan"
  /\ address \in sw.todo
  /\ IF Stale(heap[servers[address]], now)
     THEN /\ servers' = Restrict(servers, DOMAIN servers \ {address})
          /\ heap' = Release(heap, servers[address])
          /\ sw' = [sw EXCEPT !.todo = @ \ {address}, !.removed = @ \cup {address}]
     ELSE /\ sw' = [sw EXCEPT !.todo = @ \ {address},
                              !.checkList = Append(@, address)]
          /\ UNCHANGED <<servers, heap>>
  /\ UNCHANGED <<now, mu, udp, queries, web>>

\* The Unlock of line 174 written as a defer: it does not run inside the
\* loop, and the sweep goes on to dispatch with the lock held.
SweepUnlock_Deferred ==
  /\ sw.pc = "scan"
  /\ sw.todo = {}
  /\ sw' = [sw EXCEPT !.pc = "dispatch"]
  /\ UNCHANGED <<now, servers, heap, mu, udp, queries, web>>

\* manager.mu.Unlock() of line 174.
SweepUnlock ==
  /\ sw.pc = "scan"
  /\ sw.todo = {}
  /\ mu' = [mu EXCEPT !.w = ""]
  /\ sw' = [sw EXCEPT !.pc = "dispatch"]
  /\ UNCHANGED <<now, servers, heap, udp, queries, web>>

\* Lines 177-181: one goroutine per address of checkList.
SweepDispatch ==
  /\ sw.pc = "dispatch"
  /\ queries' = queries \o [i \in 1..Len(sw.checkList) |-> NewQuery(sw.checkList[i])]
  /\ sw' = IdleSweeper
  /\ UNCHANGED <<now, servers, heap, mu, udp, web>>

\* ------------------------------------------------------------ status query

\* The datagrams a queried server answers with in Spec: two complete
\* responses and one shorter than the header.  Datagrams of every other shape
\* are enumerated in SpecCodec.
RespA == <<255, 255, 255, 255, 109, 48, 65, 0, 66, 0, 0, 0, 0, 0, 3, 8>>

RespB == <<255, 255, 255, 255, 73, 17, 67, 0, 68, 0, 0, 0, 1, 0, 5, 9>>

RespShort == <<255, 255>>

Datagrams == {RespA, RespB, RespShort}

\* Line 187 fails: return.
QueryDialFail(i) ==
  /\ queries[i].pc = "dial"
  /\ queries' = RemoveAt(queries, i)
  /\ UNCHANGED <<now, servers, heap, mu, udp, sw, web>>

\* Lines 187-196: dialled, request written, read deadline set.
QueryDial(i) ==
  /\ queries[i].pc = "dial"
  /\ queries' = [queries EXCEPT ![i].pc = "read"]
  /\ UNCHANGED <<now, servers, heap, mu, udp, sw, web>>

\* Line 199 fails or times out: return.
QueryReadFail(i) ==
  /\ queries[i].pc = "read"
  /\ queries' = RemoveAt(queries, i)
  /\ UNCHANGED <<now, servers, heap, mu, udp, sw, web>>

\* Lines 200-235 without the n < 5 test of line 200.
AfterParse_NoShortCheck(q) ==
  LET f == ParseResponse(q.resp)
  IN  IF ~f.ok THEN [q EXCEPT !.pc = "return"] ELSE [q EXCEPT !.pc = "lock", !.f = f]

\* Lines 200-235 on a query whose Read has returned: it returns on n < 5 and
\* on the length check of line 231, else it has the four fields and goes on to
\* take the lock.
AfterParse(q) ==
  LET f == ParseResponse(q.resp)
  IN  IF q.n < HeaderLen \/ ~f.ok
      THEN [q EXCEPT !.pc = "return"]
      ELSE [q EXCEPT !.pc = "lock", !.f = f]

\* Query i becomes q, or ends when q has returned.
Continue(i, q) ==
  queries' = IF q.pc = "return" THEN RemoveAt(queries, i) ELSE [queries EXCEPT ![i] = q]

\* Line 199 returns without error: the first n bytes of resp are dgram's.
QueryRead(i, dgram) ==
  /\ queries[i].pc = "read"
  /\ queries' = [queries EXCEPT ![i] =
       [@ EXCEPT !.pc = "parse", !.n = ReadCount(dgram), !.resp = ReadInto(dgram)]]
  /\ UNCHANGED <<now, servers, heap, mu, udp, sw, web>>

\* Lines 200-235.
QueryParse(i) ==
  /\ queries[i].pc = "parse"
  /\ Continue(i, AfterParse(queries[i]))
  /\ UNCHANGED <<now, servers, heap, mu, udp, sw, web>>

\* Lines 199-235 in one step: dgram is received and parsed.
QueryReceive(i, dgram) ==
  /\ queries[i].pc = "read"
  /\ Continue(i, AfterParse([queries[i] EXCEPT !.n = ReadCount(dgram),
                                               !.resp = ReadInto(dgram)]))
  /\ UNCHANGED <<now, servers, heap, mu, udp, sw, web>>

\* manager.mu.Lock() of line 237.
QueryLock(i) ==
  /\ queries[i].pc = "lock"
  /\ CanLock(mu)
  /\ mu' = [mu EXCEPT !.w = "query"]
  /\ queries' = [queries EXCEPT ![i].pc = "locked"]
  /\ UNCHANGED <<now, servers, heap, udp, sw, web>>

\* The write-back that returns without the Unlock of line 245.
QueryWriteBack_NoUnlock(i) ==
  /\ queries[i].pc = "locked"
  /\ LET r == WriteBack(servers, heap, queries[i].addr, queries[i].f)
     IN  servers' = r.servers /\ heap' = r.heap
  /\ queries' = RemoveAt(queries, i)
  /\ UNCHANGED <<now, mu, udp, sw, web>>

\* Lines 239-245: write back if the entry exists, unlock, return.
QueryWriteBack(i) ==
  /\ queries[i].pc = "locked"
  /\ LET r == WriteBack(servers, heap, queries[i].addr, queries[i].f)
     IN  servers' = r.servers /\ heap' = r.heap
  /\ mu' = [mu EXCEPT !.w = ""]
  /\ queries' = RemoveAt(queries, i)
  /\ UNCHANGED <<now, udp, sw, web>>

\* -------------------------------------------------------------- web handler

\* A request arrives; handleWeb goes on to take the read lock.
WebStart(w) ==
  /\ web[w].pc = "idle"
  /\ web' = [web EXCEPT ![w].pc = "rlock"]
  /\ UNCHANGED <<now, servers, heap, mu, udp, sw, queries>>

\* manager.mu.RLock() of line 133.
WebRLock(w) ==
  /\ web[w].pc = "rlock"
  /\ CanRLock(mu)
  /\ mu' = [mu EXCEPT !.r = @ \cup {w}]
  /\ web' = [web EXCEPT ![w].pc = "locked"]
  /\ UNCHANGED <<now, servers, heap, udp, sw, queries>>

\* Lines 136-151: the pointers are collected in map order and sorted; seen
\* records what they point to at this moment.
WebList(w) ==
  /\ web[w].pc = "locked"
  /\ \E order \in Orders(DOMAIN servers) :
       LET list == SortSlice([i \in 1..Len(order) |-> servers[order[i]]], heap)
       IN  web' = [web EXCEPT ![w] =
             [pc |-> "render", list |-> list,
              seen |-> [i \in 1..Len(list) |-> heap[list[i]]]]]
  /\ UNCHANGED <<now, servers, heap, mu, udp, sw, queries>>

\* Lines 153-154 and the deferred RUnlock: the template reads the fields
\* through the pointers, then the lock is released and the list dropped.
WebRender(w) ==
  /\ web[w].pc = "render"
  /\ mu' = [mu EXCEPT !.r = @ \ {w}]
  /\ web' = [web EXCEPT ![w] = IdleWeb]
  /\ heap' = [o \in ObjId |->
               IF /\ o \in Range(web[w].list)
                  /\ o \notin {servers[a] : a \in DOMAIN servers}
                  /\ \A v \in Web \ {w} : o \notin Range(web[v].list)
               THEN FreeCell ELSE heap[o]]
  /\ UNCHANGED <<now, servers, udp, sw, queries>>

\* What the template prints for handler w: Count and the rows.
Page(w) ==
  [Count |-> Len(web[w].list),
   Servers |-> [i \in 1..Len(web[w].list) |-> heap[web[w].list[i]]]]

\* ----------------------------------------------------------- specification

Next ==
  \/ Tick
  \/ \E a \in Addr, n \in 0..1 : UdpReceive(a, n)
  \/ UdpReadError
  \/ RegisterLock
  \/ RegisterApply
  \/ SweepTick
  \/ SweepLock
  \/ \E a \in Addr : SweepExamine(a)
  \/ SweepUnlock
  \/ SweepDispatch
  \/ \E i \in 1..Len(queries) : QueryDialFail(i)
  \/ \E i \in 1..Len(queries) : QueryDial(i)
  \/ \E i \in 1..Len(queries) : QueryReadFail(i)
  \/ \E i \in 1..Len(queries), d \in Datagrams : QueryReceive(i, d)
  \/ \E i \in 1..Len(queries) : QueryLock(i)
  \/ \E i \in 1..Len(queries) : QueryWriteBack(i)
  \/ \E w \in Web : WebStart(w)
  \/ \E w \in Web : WebRLock(w)
  \/ \E w \in Web : WebList(w)
  \/ \E w \in Web : WebRender(w)

Spec == Init /\ [][Next]_vars

\* ------------------------------------------- the parser on every datagram

\* The byte values datagrams are built from in SpecCodec.
ByteVals == {0, 255}

\* Every datagram over ByteVals, up to one byte longer than the buffer.
AllDatagrams == UNION {[1..k -> ByteVals] : k \in 0..(RespBufLen + 1)}

\* One server registered at time 0 and one query for it, either about to dial
\* or with some datagram just returned by Read.
InitCodec ==
  /\ now = 0
  /\ servers = [x \in {"a1"} |-> 1]
  /\ heap = [o \in ObjId |-> IF o = 1 THEN NewServerInfo("a1", 0) ELSE FreeCell]
  /\ mu = [w |-> "", r |-> {}]
  /\ udp = IdleUdp
  /\ sw = IdleSweeper
  /\ \/ queries = <<NewQuery("a1")>>
     \/ \E d \in AllDatagrams :
          queries = <<[NewQuery("a1") EXCEPT !.pc = "parse", !.n = ReadCount(d),
                                             !.resp = ReadInto(d)]>>
  /\ web = [w \in Web |-> IdleWeb]

NextCodec ==
  \/ \E i \in 1..Len(queries) : QueryDialFail(i)
  \/ \E i \in 1..Len(queries) : QueryDial(i)
  \/ \E i \in 1..Len(queries) : QueryReadFail(i)
  \/ \E i \in 1..Len(queries), d \in Datagrams : QueryRead(i, d)
  \/ \E i \in 1..Len(queries) : QueryParse(i)
  \/ \E i \in 1..Len(queries) : QueryLock(i)
  \/ \E i \in 1..Len(queries) : QueryWriteBack(i)

SpecCodec == InitCodec /\ [][NextCodec]_vars

\* One server registered at time 0 and one query for it, about to dial.
InitCodecLive ==
  /\ now = 0
  /\ servers = [x \in {"a1"} |-> 1]
  /\ heap = [o \in ObjId |-> IF o = 1 THEN NewServerInfo("a1", 0) ELSE FreeCell]
  /\ mu = [w |-> "", r |-> {}]
  /\ udp = IdleUdp
  /\ sw = IdleSweeper
  /\ queries = <<NewQuery("a1")>>
  /\ web = [w \in Web |-> IdleWeb]

\* The queries waiting in conn.Read (line 199).
Reading == {i \in 1..Len(queries) : queries[i].pc = "read"}

\* The query's steps, its Read returning any datagram of AllDatagrams.
NextCodecLive ==
  \/ \E i \in 1..Len(queries) : QueryDialFail(i)
  \/ \E i \in 1..Len(queries) : QueryDial(i)
  \/ \E i \in 1..Len(queries) : QueryReadFail(i)
  \/ \E i \in Reading : \E d \in AllDatagrams : QueryRead(i, d)
  \/ \E i \in 1..Len(queries) : QueryParse(i)
  \/ \E i \in 1..Len(queries) : QueryLock(i)
  \/ \E i \in 1..Len(queries) : QueryWriteBack(i)

\* DialTimeout (line 187) and the read deadline (line 196) end the dial and
\* the read one way or the other; the parse is straight-line code, so no
\* query stays in it for ever (weak fairness of QueryParse, which is enabled
\* exactly when a query is at "parse", written out); nobody else holds the
\* lock here.
FairnessCodec ==
  /\ WF_vars(\E i \in 1..Len(queries) : QueryDialFail(i) \/ QueryDial(i))
  /\ WF_vars(\E i \in Reading : QueryReadFail(i))
  /\ []<>(\A i \in 1..Len(queries) : queries[i].pc # "parse")
  /\ WF_vars(\E i \in 1..Len(queries) : QueryLock(i))
  /\ WF_vars(\E i \in 1..Len(queries) : QueryWriteBack(i))

SpecCodecLive == InitCodecLive /\ [][NextCodecLive]_vars /\ FairnessCodec

\* ------------------------------------------- the listing on larger registries

\* The addresses of the registries SpecSnap starts from.
SnapAddr == {"a1", "a2", "a3", "a4"}

SnapCell == [a1 |-> 1, a2 |-> 2, a3 |-> 3, a4 |-> 4]

\* Any registry of up to four servers, each last seen at some time up to now,
\* at any time of the clock.
InitSnap ==
  /\ now \in 0..MaxTime
  /\ \E S \in SUBSET SnapAddr : \E ts \in [S -> 0..now] :
       /\ servers = [a \in S |-> SnapCell[a]]
       /\ heap = [o \in ObjId |->
                    IF \E a \in S : SnapCell[a] = o
                    THEN NewServerInfo(CHOOSE a \in S : SnapCell[a] = o,
                                       ts[CHOOSE a \in S : SnapCell[a] = o])
                    ELSE FreeCell]
  /\ mu = [w |-> "", r |-> {}]
  /\ udp = IdleUdp
  /\ sw = IdleSweeper
  /\ queries = <<>>
  /\ web = [w \in Web |-> IdleWeb]

NextSnap ==
  \/ \E a \in SnapAddr, n \in 0..1 : UdpReceive(a, n)
  \/ RegisterLock
  \/ RegisterApply
  \/ \E w \in Web : WebStart(w)
  \/ \E w \in Web : WebRLock(w)
  \/ \E w \in Web : WebList(w)
  \/ \E w \in Web : WebRender(w)

SpecSnap == InitSnap /\ [][NextSnap]_vars

\* ------------------------------------------- a heartbeat racing a sweep

\* The record of "a1" in the registries SpecRace starts from: filled in by an
\* earlier query that was answered with RespA, last seen at time t.
RaceRecord(t) ==
  [Address |-> "a1", LastSeen |-> t, Name |-> ParseResponse(RespA).name,
   Map |-> ParseResponse(RespA).mapName, Players |-> ParseResponse(RespA).players,
   MaxPlayers |-> ParseResponse(RespA).maxPlayers]

\* "a1" is stale; "a2" is absent or present with any age.  registerServer("a1")
\* has been called (line 109) and the ticker has fired (line 160): both are
\* about to take the lock.  The clock stands still during the race.
InitRace ==
  /\ now \in (StaleThreshold + 1)..MaxTime
  /\ \E t1 \in 0..(now - StaleThreshold - 1) :
       \/ /\ servers = [x \in {"a1"} |-> 1]
          /\ heap = [o \in ObjId |-> IF o = 1 THEN RaceRecord(t1) ELSE FreeCell]
       \/ \E t2 \in 0..now :
            /\ servers = [x \in {"a1", "a2"} |-> IF x = "a1" THEN 1 ELSE 2]
            /\ heap = [o \in ObjId |->
                         IF o = 1 THEN RaceRecord(t1)
                         ELSE IF o = 2 THEN NewServerInfo("a2", t2) ELSE FreeCell]
  /\ mu = [w |-> "", r |-> {}]
  /\ udp = [pc |-> "call", addr |-> "a1"]
  /\ sw = [IdleSweeper EXCEPT !.pc = "lock"]
  /\ queries = <<>>
  /\ web = [w \in Web |-> IdleWeb]

\* The heartbeat's registerServer, one sweep up to its dispatch, and web
\* handlers; the dispatched queries are not run.
NextRace ==
  \/ RegisterLock
  \/ RegisterApply
  \/ SweepLock
  \/ \E a \in Addr : SweepExamine(a)
  \/ SweepUnlock
  \/ SweepDispatch
  \/ \E w \in Web : WebStart(w)
  \/ \E w \in Web : WebRLock(w)
  \/ \E w \in Web : WebList(w)
  \/ \E w \in Web : WebRender(w)

SpecRace == InitRace /\ [][NextRace]_vars

\* ------------------------------------------------------ fair scheduling

\* The addresses heartbeats arrive from in SpecLive.
LiveAddr == {"a1"}

\* The answers of a queried server in SpecLive: a complete one and one shorter
\* than the header.
LiveDatagrams == {RespA, RespShort}

\* The whole program with heartbeats from LiveAddr and answers from
\* LiveDatagrams.
NextLive ==
  \/ Tick
  \/ \E a \in LiveAddr, n \in 0..1 : UdpReceive(a, n)
  \/ UdpReadError
  \/ RegisterLock
  \/ RegisterApply
  \/ SweepTick
  \/ SweepLock
  \/ \E a \in Addr : SweepExamine(a)
  \/ SweepUnlock
  \/ SweepDispatch
  \/ \E i \in 1..Len(queries) : QueryDialFail(i)
  \/ \E i \in 1..Len(queries) : QueryDial(i)
  \/ \E i \in 1..Len(queries) : QueryReadFail(i)
  \/ \E i \in 1..Len(queries), d \in LiveDatagrams : QueryReceive(i, d)
  \/ \E i \in 1..Len(queries) : QueryLock(i)
  \/ \E i \in 1..Len(queries) : QueryWriteBack(i)
  \/ \E w \in Web : WebStart(w)
  \/ \E w \in Web : WebRLock(w)
  \/ \E w \in Web : WebList(w)
  \/ \E w \in Web : WebRender(w)

\* What the scheduling gives.  The clock advances and the ticker fires (line
\* 159).  A goroutine that can take a step takes it: the bodies of the
\* critical sections and the dispatch are straight-line code.  DialTimeout
\* (line 187) and the read deadline (line 196) end the dial and the read of
\* every query, one way or the other.  A goroutine waiting in Lock or RLock
\* gets the lock if it is free again and again (sync.RWMutex hands the lock
\* to waiters; a waiting goroutine is not starved).  Nothing is assumed of
\* arriving heartbeats and web requests.
Fairness ==
  /\ WF_vars(Tick)
  /\ WF_vars(SweepTick)
  /\ SF_vars(RegisterLock)
  /\ WF_vars(RegisterApply)
  /\ SF_vars(SweepLock)
  /\ WF_vars(\E a \in Addr : SweepExamine(a))
  /\ WF_vars(SweepUnlock)
  /\ WF_vars(SweepDispatch)
  /\ WF_vars(\E i \in 1..Len(queries) : QueryDialFail(i) \/ QueryDial(i))
  /\ WF_vars(\E i \in 1..Len(queries), d \in LiveDatagrams :
               QueryReadFail(i) \/ QueryReceive(i, d))
  /\ SF_vars(\E i \in 1..Len(queries) : QueryLock(i))
  /\ WF_vars(\E i \in 1..Len(queries) : QueryWriteBack(i))
  /\ \A w \in Web : SF_vars(WebRLock(w))
  /\ \A w \in Web : WF_vars(WebList(w))
  /\ \A w \in Web : WF_vars(WebRender(w))

SpecLive == Init /\ [][NextLive]_vars /\ Fairness

\* ------------------------------- a query that outlives its record

\* A query for "a1" that was answered with RespB and is about to take the
\* lock for its write-back (line 237).
OldQuery ==
  [addr |-> "a1", pc |-> "lock", n |-> ReadCount(RespB), resp |-> ReadInto(RespB),
   f |-> ParseResponse(ReadInto(RespB))]

\* The record the query was dispatched for has been evicted: the registry is
\* empty and the query is still in flight.
InitGone ==
  /\ now \in 0..MaxTime
  /\ servers = [x \in {} |-> 1]
  /\ heap = [o \in ObjId |-> FreeCell]
  /\ mu = [w |-> "", r |-> {}]
  /\ udp = IdleUdp
  /\ sw = IdleSweeper
  /\ queries = <<OldQuery>>
  /\ web = [w \in Web |-> IdleWeb]

\* The program from there on; the queries dispatched from now on are answered
\* from LiveDatagrams, so the fields of RespB can only come from OldQuery.
SpecGone == InitGone /\ [][NextLive]_vars

\* ------------------------------------- the write-back, store by store

\* Line 239 and line 240: the entry is looked up; when it exists Name is
\* stored, when it does not the lock is released (line 245) and the query
\* returns.
QueryStoreName(i) ==
  /\ queries[i].pc = "locked"
  /\ IF queries[i].addr \in DOMAIN servers
     THEN /\ heap' = [heap EXCEPT ![servers[queries[i].addr]].Name = queries[i].f.name]
          /\ queries' = [queries EXCEPT ![i].pc = "map"]
          /\ mu' = mu
     ELSE /\ heap' = heap
          /\ queries' = RemoveAt(queries, i)
          /\ mu' = [mu EXCEPT !.w = ""]
  /\ UNCHANGED <<now, servers, udp, sw, web>>

\* Line 241.
QueryStoreMap(i) ==
  /\ queries[i].pc = "map"
  /\ heap' = [heap EXCEPT ![servers[queries[i].addr]].Map = queries[i].f.mapName]
  /\ queries' = [queries EXCEPT ![i].pc = "players"]
  /\ UNCHANGED <<now, servers, mu, udp, sw, web>>

\* Line 242.
QueryStorePlayers(i) ==
  /\ queries[i].pc = "players"
  /\ heap' = [heap EXCEPT ![servers[queries[i].addr]].Players = queries[i].f.players]
  /\ queries' = [queries EXCEPT ![i].pc = "maxPlayers"]
  /\ UNCHANGED <<now, servers, mu, udp, sw, web>>

\* Lines 243-245: the last store, the Unlock and the return.
QueryStoreMaxPlayers(i) ==
  /\ queries[i].pc = "maxPlayers"
  /\ heap' = [heap EXCEPT ![servers[queries[i].addr]].MaxPlayers = queries[i].f.maxPlayers]
  /\ mu' = [mu EXCEPT !.w = ""]
  /\ queries' = RemoveAt(queries, i)
  /\ UNCHANGED <<now, servers, udp, sw, web>>

\* "a1" registered, with two queries for it in flight (dispatched by two
\* sweeps) that have dialled.
InitStores ==
  /\ now = 0
  /\ servers = [x \in {"a1"} |-> 1]
  /\ heap = [o \in ObjId |-> IF o = 1 THEN NewServerInfo("a1", 0) ELSE FreeCell]
  /\ mu = [w |-> "", r |-> {}]
  /\ udp = IdleUdp
  /\ sw = IdleSweeper
  /\ queries = <<[NewQuery("a1") EXCEPT !.pc = "read"],
                 [NewQuery("a1") EXCEPT !.pc = "read"]>>
  /\ web = [w \in Web |-> IdleWeb]

\* The two queries, their write-backs taken store by store, beside heartbeats
\* and web handlers.
NextStores ==
  \/ \E a \in Addr, n \in 0..1 : UdpReceive(a, n)
  \/ RegisterLock
  \/ RegisterApply
  \/ \E i \in 1..Len(queries) : QueryReadFail(i)
  \/ \E i \in 1..Len(queries), d \in Datagrams : QueryReceive(i, d)
  \/ \E i \in 1..Len(queries) : QueryLock(i)
  \/ \E i \in 1..Len(queries) : QueryStoreName(i)
  \/ \E i \in 1..Len(queries) : QueryStoreMap(i)
  \/ \E i \in 1..Len(queries) : QueryStorePlayers(i)
  \/ \E i \in 1..Len(queries) : QueryStoreMaxPlayers(i)
  \/ \E w \in Web : WebStart(w)
  \/ \E w \in Web : WebRLock(w)
  \/ \E w \in Web : WebList(w)
  \/ \E w \in Web : WebRender(w)

SpecStores == InitStores /\ [][NextStores]_vars

\* ------------------------------------------- the heartbeat loop's datagrams

\* The byte values heartbeat payloads are built from: zero and 'q'.
PayloadBytes == {0, 113}

\* Every payload over PayloadBytes, up to one byte longer than the buffer.
Payloads == UNION {[1..k -> PayloadBytes] : k \in 0..(UdpBufLen + 1)}

\* The loop that registers only datagrams starting with 'q'.
UdpDatagram_Validating(address, payload) ==
  /\ udp.pc = "recv"
  /\ LET n == Min(Len(payload), UdpBufLen)
         admit == n > 0 /\ payload[1] = 113
     IN  udp' = [pc |-> IF admit THEN "call" ELSE "recv",
                 addr |-> IF admit THEN address ELSE "",
                 n |-> n, buf |-> SubSeq(payload, 1, n), remoteAddr |-> address]
  /\ UNCHANGED <<now, servers, heap, mu, sw, queries, web>>

\* Lines 103-110 with the loop's variables kept: ReadFromUDP returns without
\* error, n bytes of payload are in buf and remoteAddr is the sender; n > 0
\* calls registerServer(remoteAddr.String()), n = 0 goes round the loop.
UdpDatagram(address, payload) ==
  /\ udp.pc = "recv"
  /\ LET n == Min(Len(payload), UdpBufLen)
     IN  udp' = [pc |-> IF n > 0 THEN "call" ELSE "recv",
                 addr |-> IF n > 0 THEN address ELSE "",
                 n |-> n, buf |-> SubSeq(payload, 1, n), remoteAddr |-> address]
  /\ UNCHANGED <<now, servers, heap, mu, sw, queries, web>>

\* The heartbeat loop on every payload, the clock and web handlers.
NextUdp ==
  \/ Tick
  \/ \E a \in Addr, p \in Payloads : UdpDatagram(a, p)
  \/ UdpReadError
  \/ RegisterLock
  \/ RegisterApply
  \/ \E w \in Web : WebStart(w)
  \/ \E w \in Web : WebRLock(w)
  \/ \E w \in Web : WebList(w)
  \/ \E w \in Web : WebRender(w)

SpecUdp == Init /\ [][NextUdp]_vars

\* ------------------------------------- two queries for one address

\* The query of the earlier sweep cycle: answered with RespA and about to
\* take the lock for its write-back (line 237).
OlderQuery ==
  [addr |-> "a1", pc |-> "lock", n |-> ReadCount(RespA), resp |-> ReadInto(RespA),
   f |-> ParseResponse(ReadInto(RespA))]

\* "a1" registered and not yet filled in; the next sweep cycle has dispatched
\* a second query for it behind the first.
InitOrder ==
  /\ now \in 0..MaxTime
  /\ servers = [x \in {"a1"} |-> 1]
  /\ heap = [o \in ObjId |-> IF o = 1 THEN NewServerInfo("a1", 0) ELSE FreeCell]
  /\ mu = [w |-> "", r |-> {}]
  /\ udp = IdleUdp
  /\ sw = IdleSweeper
  /\ queries = <<OlderQuery, NewQuery("a1")>>
  /\ web = [w \in Web |-> IdleWeb]

\* Both queries succeed, the later one with the answer RespB; heartbeats and
\* web handlers go on beside them.
NextOrder ==
  \/ \E a \in Addr, n \in 0..1 : UdpReceive(a, n)
  \/ RegisterLock
  \/ RegisterApply
  \/ \E i \in 1..Len(queries) : QueryDial(i)
  \/ \E i \in 1..Len(queries) : QueryReceive(i, RespB)
  \/ \E i \in 1..Len(queries) : QueryLock(i)
  \/ \E i \in 1..Len(queries) : QueryWriteBack(i)
  \/ \E w \in Web : WebStart(w)
  \/ \E w \in Web : WebRLock(w)
  \/ \E w \in Web : WebList(w)
  \/ \E w \in Web : WebRender(w)

SpecOrder == InitOrder /\ [][NextOrder]_vars

\* ================================================================ properties

\* The bytes query q has received: the first n bytes of its buffer.
Received(q) == SubSeq(q.resp, 1, q.n)

\* Positions of the zero bytes of datagram d after the header and the
\* protocol byte.
ZeroPos(d) == {p \in (HeaderLen + 2)..Len(d) : d[p] = 0}

\* Position of the k-th of them.
NthZero(d, k) == CHOOSE p \in ZeroPos(d) : Cardinality({q \in ZeroPos(d) : q < p}) = k - 1

\* d holds the header, the protocol byte, four terminated strings and the four
\* bytes after them.
WellFormed(d) == Cardinality(ZeroPos(d)) >= 4 /\ NthZero(d, 4) + 4 <= Len(d)

\* d has the header but ends before the fourth terminator or before the four
\* bytes after it.
Truncated(d) == Len(d) >= HeaderLen /\ ~WellFormed(d)

\* The fields of a well-formed datagram, by position.
FieldsOf(d) ==
  [ok |-> TRUE,
   name |-> SubSeq(d, HeaderLen + 2, NthZero(d, 1) - 1),
   mapName |-> SubSeq(d, NthZero(d, 1) + 1, NthZero(d, 2) - 1),
   players |-> d[NthZero(d, 4) + 3],
   maxPlayers |-> d[NthZero(d, 4) + 4]]

\* This step ends query i without a successor.
Abandoned(i) == queries' = RemoveAt(queries, i)

\* This step moves query i on and leaves the other queries alone.
Advanced(i) ==
  /\ Len(queries') = Len(queries)
  /\ queries'[i] # queries[i]
  /\ \A j \in 1..Len(queries) : j # i => queries'[j] = queries[j]

\* C1: a query whose received datagram is truncated is abandoned when it is
\* parsed, and no step of that query changes the registry.
C1_TruncatedAbandoned ==
  [][\A i \in 1..Len(queries) :
       (queries[i].pc \in {"parse", "lock", "locked"} /\ Truncated(Received(queries[i])))
         => /\ ~Advanced(i)
            /\ Abandoned(i) => UNCHANGED <<servers, heap>>]_vars

\* C10: a query that has received a well-formed datagram is not abandoned by
\* the parse, leaves it with exactly the datagram's name, map and two count
\* bytes, and its write-back stores these four in the record and nothing else.
C10_WellFormedWritten ==
  [][\A i \in 1..Len(queries) :
       LET q == queries[i]
           d == Received(q)
       IN  WellFormed(d) =>
             /\ q.pc = "parse" => ~Abandoned(i)
             /\ (q.pc = "parse" /\ Advanced(i)) =>
                   /\ queries'[i].pc = "lock"
                   /\ queries'[i].f = FieldsOf(d)
                   /\ queries'[i].f.players \in 0..255
                   /\ queries'[i].f.maxPlayers \in 0..255
             /\ (q.pc = "locked" /\ Abandoned(i) /\ q.addr \in DOMAIN servers) =>
                   /\ servers' = servers
                   /\ heap' = [heap EXCEPT ![servers[q.addr]] =
                        [Address |-> @.Address, LastSeen |-> @.LastSeen,
                         Name |-> FieldsOf(d).name, Map |-> FieldsOf(d).mapName,
                         Players |-> FieldsOf(d).players,
                         MaxPlayers |-> FieldsOf(d).maxPlayers]]]_vars

\* C10 witness: a well-formed datagram with a non-empty name and a count of 255
\* has been written into the record.
C10_Witness ==
  /\ queries = <<>>
  /\ "a1" \in DOMAIN servers
  /\ heap[servers["a1"]].Name = <<255>>
  /\ heap[servers["a1"]].Players = 255
  /\ heap[servers["a1"]].MaxPlayers = 0

\* The record stored under address a.
Rec(a) == heap[servers[a]]

\* This step is the body of registerServer.
RegisterStep == udp.pc = "locked" /\ udp'.pc = "recv"

\* This step is the write-back of query i.
WriteBackStep(i) == queries[i].pc = "locked" /\ Abandoned(i)

\* This step is the sweep's examination of address a.
ExamineStep(a) == sw.pc = "scan" /\ a \in sw.todo /\ a \notin sw'.todo

NoDuplicates(l) == \A i, j \in 1..Len(l) : l[i] = l[j] => i = j

\* C2: the write-back of a query leaves the map as it is, and the whole
\* registry when the address has no entry; an address enters the map only in
\* registerServer's step for that address.
C2_WriteBackNeverCreates ==
  [][/\ \A i \in 1..Len(queries) :
          WriteBackStep(i) =>
            /\ servers' = servers
            /\ queries[i].addr \notin DOMAIN servers => heap' = heap
     /\ \A a \in DOMAIN servers' \ DOMAIN servers :
          RegisterStep /\ udp.addr = a]_vars

\* C2 witness: a query holds the lock for its write-back and its address has
\* no entry, while another query for the same address is still in flight.
C2_Witness ==
  \E i, j \in 1..Len(queries) :
    /\ i # j
    /\ queries[i].pc = "locked"
    /\ queries[i].addr \notin DOMAIN servers
    /\ queries[j].addr = queries[i].addr

\* C3: the examination of an entry deletes it exactly when its age is above
\* the threshold and leaves every other entry and every kept record as it
\* was; a sweep examines every entry it found; an entry leaves the map only
\* in such an examination.
C3_SweepRemovesExactlyStale ==
  [][/\ \A a \in DOMAIN servers :
          ExamineStep(a) =>
            /\ (a \notin DOMAIN servers') <=> (now - Rec(a).LastSeen > StaleThreshold)
            /\ DOMAIN servers \ {a} \subseteq DOMAIN servers'
            /\ \A b \in DOMAIN servers' :
                 servers'[b] = servers[b] /\ heap'[servers'[b]] = heap[servers[b]]
     /\ (sw.pc = "lock" /\ sw'.pc = "scan") => sw'.todo = DOMAIN servers
     /\ (sw.pc = "scan" /\ sw'.pc = "dispatch") => sw.todo = {}
     /\ \A a \in DOMAIN servers \ DOMAIN servers' :
          mu.w = "sweeper" /\ ExamineStep(a)]_vars

\* C3 witness: a sweep has deleted an entry and kept one whose age equals the
\* threshold.
C3_Witness ==
  /\ sw.pc = "dispatch"
  /\ sw.removed # {}
  /\ \E a \in Range(sw.checkList) :
       a \in DOMAIN servers /\ now - Rec(a).LastSeen = StaleThreshold

\* Every entry's record carries the entry's key, and no two entries share one.
RegistryWellKeyed ==
  /\ \A a \in DOMAIN servers : Rec(a).Address = a
  /\ \A a, b \in DOMAIN servers : servers[a] = servers[b] => a = b

\* C4: registerServer(a) adds the placeholder record with lastSeen = now when a
\* has no entry, else changes only that record's lastSeen to now; the other
\* entries keep their records; the registry is well keyed in every state.
C4_RegisterServer ==
  /\ []RegistryWellKeyed
  /\ [][RegisterStep =>
          LET a == udp.addr
          IN  /\ DOMAIN servers' = DOMAIN servers \cup {a}
              /\ IF a \in DOMAIN servers
                 THEN /\ servers'[a] = servers[a]
                      /\ heap'[servers[a]] = [Rec(a) EXCEPT !.LastSeen = now]
                 ELSE heap'[servers'[a]] =
                        [Address |-> a, LastSeen |-> now, Name |-> Placeholder,
                         Map |-> <<>>, Players |-> 0, MaxPlayers |-> 0]
              /\ \A b \in DOMAIN servers \ {a} :
                   servers'[b] = servers[b] /\ heap'[servers'[b]] = heap[servers[b]]]_vars

\* C4 witness: registerServer holds the lock for an address whose record was
\* filled in by a query and last seen earlier, beside another entry.
C4_Witness ==
  /\ udp.pc = "locked"
  /\ udp.addr \in DOMAIN servers
  /\ Rec(udp.addr).Name # Placeholder
  /\ Rec(udp.addr).LastSeen < now
  /\ Cardinality(DOMAIN servers) = 2

\* C5: an entry's lastSeen never decreases and changes only in registerServer's
\* step for that address; the write-back of a query stores its four fields in
\* the target record and changes neither its lastSeen nor its Address nor any
\* other record.
C5_LastSeenOnlyByHeartbeat ==
  [][/\ \A a \in DOMAIN servers \cap DOMAIN servers' :
          /\ heap'[servers'[a]].LastSeen >= Rec(a).LastSeen
          /\ heap'[servers'[a]].LastSeen # Rec(a).LastSeen =>
               (RegisterStep /\ udp.addr = a)
     /\ \A i \in 1..Len(queries) :
          (WriteBackStep(i) /\ queries[i].addr \in DOMAIN servers) =>
            /\ servers' = servers
            /\ heap' = [heap EXCEPT ![servers[queries[i].addr]] =
                 [Address |-> @.Address, LastSeen |-> @.LastSeen,
                  Name |-> queries[i].f.name, Map |-> queries[i].f.mapName,
                  Players |-> queries[i].f.players,
                  MaxPlayers |-> queries[i].f.maxPlayers]]]_vars

\* C5 witness: the sweep is about to examine a stale entry whose record a
\* query has filled in, after the time of its last heartbeat.
C5_Witness ==
  /\ sw.pc = "scan"
  /\ \E a \in sw.todo :
       /\ Stale(Rec(a), now)
       /\ Rec(a).Name = <<65>>
       /\ Rec(a).Players = 3

\* C6: while the sweeper holds the lock only its examinations change the
\* registry and nobody else enters a critical section; when it unlocks,
\* checkList holds exactly the entries then in the map, each once, none of
\* them deleted in this sweep, and with the deleted ones they are the entries
\* found at the start; the dispatch starts one query per address of checkList.
C6_SweepCriticalSection ==
  [][/\ mu.w = "sweeper" =>
          /\ (servers' # servers \/ heap' # heap) => \E a \in Addr : ExamineStep(a)
          /\ udp'.pc # "locked"
          /\ \A i \in 1..Len(queries') : queries'[i].pc # "locked"
          /\ \A w \in Web : web'[w].pc \notin {"locked", "render"}
     /\ (sw.pc = "lock" /\ sw'.pc = "scan") => sw'.start = DOMAIN servers
     /\ (sw.pc = "scan" /\ sw'.pc = "dispatch") =>
          /\ Range(sw.checkList) = DOMAIN servers'
          /\ NoDuplicates(sw.checkList)
          /\ Range(sw.checkList) \cap sw.removed = {}
          /\ Range(sw.checkList) \cup sw.removed = sw.start
     /\ (sw.pc = "dispatch" /\ sw'.pc = "tick") =>
          /\ Len(queries') = Len(queries) + Len(sw.checkList)
          /\ SubSeq(queries', 1, Len(queries)) = queries
          /\ \A k \in 1..Len(sw.checkList) :
               /\ queries'[Len(queries) + k].addr = sw.checkList[k]
               /\ queries'[Len(queries) + k].pc = "dial"]_vars

\* C6 witness: a sweep that deleted one entry and kept another is about to
\* dispatch.
C6_Witness ==
  /\ sw.pc = "dispatch"
  /\ Cardinality(sw.removed) = 1
  /\ Len(sw.checkList) = 1

\* C7: a query that ends at the dial or at the read, or that has received fewer
\* than 5 bytes, ends without a step that changes the registry or takes the
\* lock, and no query is started in its place.
C7_TransportFailure ==
  [][\A i \in 1..Len(queries) :
       /\ (queries[i].pc \in {"dial", "read"} /\ Abandoned(i)) =>
            UNCHANGED <<servers, heap, mu>>
       /\ (queries[i].pc = "parse" /\ queries[i].n < 5) =>
            /\ ~Advanced(i)
            /\ Abandoned(i) => UNCHANGED <<servers, heap, mu>>]_vars

\* C7 witness: a query has received fewer than 5 bytes for an address that
\* has a record.
C7_Witness ==
  \E i \in 1..Len(queries) :
    /\ queries[i].pc = "parse"
    /\ queries[i].n = 4
    /\ queries[i].n < HeaderLen
    /\ queries[i].addr \in DOMAIN servers

\* The heap cells the map points to.
Cells == {servers[a] : a \in DOMAIN servers}

\* C8: the list a handler has built holds every record of the registry exactly
\* once, no row's lastSeen is before the next row's, and Count is the number
\* of rows and of entries in the registry.
C8_SnapshotSortedComplete ==
  \A w \in Web :
    web[w].pc = "render" =>
      LET l == web[w].list
          p == Page(w)
      IN  /\ p.Count = Len(p.Servers)
          /\ p.Count = Cardinality(DOMAIN servers)
          /\ \A a \in DOMAIN servers :
               Cardinality({i \in 1..Len(l) : l[i] = servers[a]}) = 1
          /\ {p.Servers[i].Address : i \in 1..Len(l)} = DOMAIN servers
          /\ \A i \in 1..(Len(l) - 1) :
               p.Servers[i].LastSeen >= p.Servers[i + 1].LastSeen

\* C8 witness: a list of four records with three different lastSeen values.
C8_Witness ==
  \E w \in Web :
    /\ web[w].pc = "render"
    /\ Len(web[w].list) = 4
    /\ Page(w).Servers[1].LastSeen = 2
    /\ Page(w).Servers[2].LastSeen = 1
    /\ Page(w).Servers[4].LastSeen = 0

\* C9 as claimed: no element of a handler's list is a record the registry
\* points to (the list is a copy that can be read without the lock).
C9_SnapshotNoAlias ==
  \A w \in Web :
    web[w].pc = "render" => \A i \in 1..Len(web[w].list) : web[w].list[i] \notin Cells

\* C9 as amended: a handler that has built its list still holds the read lock
\* and no writer holds the lock, the list's elements are the registry's own
\* records, and what the handler reads through them is what they held when
\* the list was built.
C9_SnapshotReadUnderLock ==
  \A w \in Web :
    web[w].pc = "render" =>
      /\ w \in mu.r
      /\ mu.w = ""
      /\ Range(web[w].list) = Cells
      /\ Page(w).Servers = web[w].seen

\* C9 witness: a handler has built a list of two records while a heartbeat,
\* the sweeper and a query's write-back all wait for the lock.
C9_Witness ==
  \E w \in Web :
    /\ web[w].pc = "render"
    /\ Len(web[w].list) = 2
    /\ udp.pc = "call"
    /\ sw.pc = "lock"
    /\ \E i \in 1..Len(queries) : queries[i].pc = "lock"

\* The addresses of the rows of handler w's list.
Listed(w) == {heap[web[w].list[i]].Address : i \in 1..Len(web[w].list)}

\* C11: a completed registerServer(a) leaves a in the registry together with
\* every entry that was there; an entry leaves the registry only when the
\* sweep examines it and finds it stale; and a snapshot built at any moment of
\* any interleaving lists exactly the registry's addresses, each once.
C11_NoLostHeartbeat ==
  /\ [](\A w \in Web :
          web[w].pc = "render" =>
            /\ Listed(w) = DOMAIN servers
            /\ Len(web[w].list) = Cardinality(DOMAIN servers))
  /\ [][/\ RegisterStep =>
              /\ udp.addr \in DOMAIN servers'
              /\ DOMAIN servers \subseteq DOMAIN servers'
         /\ \A a \in DOMAIN servers \ DOMAIN servers' :
              ExamineStep(a) /\ Stale(Rec(a), now)
         /\ \A i \in 1..Len(queries) :
              WriteBackStep(i) => DOMAIN servers' = DOMAIN servers]_vars

\* C11 witness: both addresses have been registered and are listed by a
\* snapshot after the clock has advanced, while a sweep waits for the lock
\* and two queries of earlier sweeps are in flight, one of them waiting to
\* write back.
C11_Witness ==
  \E w \in Web :
    /\ web[w].pc = "render"
    /\ Listed(w) = Addr
    /\ now > 0
    /\ sw.pc = "lock"
    /\ Len(queries) = 2
    /\ queries[2].pc = "lock"

\* The queries in flight for address a.
QueriesFor(a) == {i \in 1..Len(queries) : queries[i].addr = a}

\* In SpecRace: the heartbeat and the sweep have both completed.
RaceOver == udp.pc = "recv" /\ sw.pc = "tick"

\* Outcome "heartbeat first": the record of "a1" is the one the race started
\* with, in the same cell, with lastSeen refreshed and its descriptive fields
\* kept.
RaceSurvived ==
  /\ "a1" \in DOMAIN servers
  /\ servers["a1"] = 1
  /\ Rec("a1") = RaceRecord(now)

\* Outcome "sweep first": the record of "a1" is a new one with placeholder
\* fields.
RaceReadmitted ==
  /\ "a1" \in DOMAIN servers
  /\ Rec("a1") = NewServerInfo("a1", now)

\* C12: in the race of a heartbeat for the stale address "a1" with a sweep,
\* the sweep's examination of "a1" evicts it exactly when the heartbeat has
\* not yet been applied; an evicted "a1" is not in checkList and is absent or
\* re-admitted with placeholder fields, never the refreshed original; a kept
\* "a1" is in checkList with the refreshed original record; and when both
\* have completed "a1" is present, either as the refreshed original with one
\* query dispatched for it, or as a new placeholder record with none.
C12_HeartbeatSweepRace ==
  /\ [](("a1" \in sw.removed) =>
          /\ "a1" \notin Range(sw.checkList)
          /\ ("a1" \notin DOMAIN servers) \/ RaceReadmitted)
  /\ [](("a1" \in Range(sw.checkList)) => RaceSurvived)
  /\ [](RaceOver =>
          \/ RaceSurvived /\ Cardinality(QueriesFor("a1")) = 1
          \/ RaceReadmitted /\ QueriesFor("a1") = {})
  /\ [][ExamineStep("a1") =>
          /\ udp.pc # "locked"
          /\ (udp.pc = "call") =>
               ("a1" \in sw'.removed /\ "a1" \notin DOMAIN servers')
          /\ (udp.pc = "recv") =>
               /\ "a1" \in Range(sw'.checkList)
               /\ "a1" \in DOMAIN servers'
               /\ servers'["a1"] = 1
               /\ heap'[1] = RaceRecord(now)]_vars

\* C12 witness (sweep first): both have completed, "a1" was evicted and
\* re-admitted with placeholder fields, and the only query dispatched is for
\* the other address.
C12_Witness ==
  /\ RaceOver
  /\ RaceReadmitted
  /\ Len(queries) = 1
  /\ queries[1].addr = "a2"

\* The other outcome (heartbeat first) is reached as well.
C12_SurvivedReached ==
  /\ RaceOver
  /\ RaceSurvived
  /\ Len(queries) = 2

\* Address a has a record whose last heartbeat is old enough to become stale
\* within the clock's range.
Ageing(a) == a \in DOMAIN servers /\ Rec(a).LastSeen + StaleThreshold < MaxTime

\* C13: a record whose last heartbeat is old enough to become stale is
\* eventually evicted unless a later heartbeat refreshes it; the sweep's
\* examination of a record whose age exceeds the threshold removes it; until
\* such an examination the record stays in the registry, with its address and
\* lastSeen, and in every list a handler builds; an absent address comes back
\* only by registerServer for it.
C13_StaleEventuallyEvicted ==
  /\ \A a \in LiveAddr : Ageing(a) ~> ~Ageing(a)
  /\ [](\A w \in Web : web[w].pc = "render" => Listed(w) = DOMAIN servers)
  /\ [][\A a \in LiveAddr :
          /\ (a \in DOMAIN servers /\ ExamineStep(a)
                /\ now - Rec(a).LastSeen > StaleThreshold) =>
               a \notin DOMAIN servers'
          /\ (a \in DOMAIN servers /\ a \notin DOMAIN servers') =>
               (ExamineStep(a) /\ now - Rec(a).LastSeen > StaleThreshold)
          /\ (a \notin DOMAIN servers /\ a \in DOMAIN servers') =>
               (RegisterStep /\ udp.addr = a)]_vars

\* C13 witness: at the end of the clock's range the sweep has evicted "a1"
\* and still holds the lock; no heartbeat from "a1" is under way.
C13_Witness ==
  /\ sw.pc = "scan"
  /\ "a1" \in sw.removed
  /\ "a1" \notin DOMAIN servers
  /\ udp.pc = "recv"
  /\ now = MaxTime

\* The four descriptive fields of record rec are those of the parse result f.
HasFields(rec, f) ==
  /\ rec.Name = f.name
  /\ rec.Map = f.mapName
  /\ rec.Players = f.players
  /\ rec.MaxPlayers = f.maxPlayers

\* C14 as claimed: after the eviction of the record a query was dispatched
\* for, the query's result never shows in the registry, re-admitted or not.
C14_OldResultDiscarded ==
  ("a1" \in DOMAIN servers) => ~HasFields(Rec("a1"), OldQuery.f)

\* C14 as amended: the write-back of the query that outlived its record is
\* discarded (the registry stays as it is) exactly when the address has no
\* entry at that moment; when a heartbeat has re-admitted the address, the
\* write-back stores the old result in the re-admitted record, keeps its
\* address and lastSeen, and leaves the map as it is.
C14_OldResultByAddress ==
  [][\A i \in 1..Len(queries) :
       (WriteBackStep(i) /\ queries[i].f = OldQuery.f) =>
         /\ servers' = servers
         /\ ("a1" \notin DOMAIN servers) => (heap' = heap)
         /\ ("a1" \in DOMAIN servers) =>
              /\ HasFields(heap'[servers["a1"]], OldQuery.f)
              /\ heap'[servers["a1"]].LastSeen = Rec("a1").LastSeen
              /\ heap'[servers["a1"]].Address = "a1"
              /\ \A o \in ObjId \ {servers["a1"]} : heap'[o] = heap[o]]_vars

\* C14 witness: the old query holds the lock for its write-back and "a1" has
\* been re-admitted with placeholder fields.
C14_Witness ==
  /\ Len(queries) >= 1
  /\ queries[1] = [OldQuery EXCEPT !.pc = "locked"]
  /\ "a1" \in DOMAIN servers
  /\ Rec("a1") = NewServerInfo("a1", Rec("a1").LastSeen)

\* C15: whatever datagram of whatever length a query has received, the parse
\* meets no index fault; every step of a query either moves it on or ends
\* it; it ends either in its write-back, which stores its fields and releases
\* the lock, or before taking the lock with registry and lock untouched; the
\* lock is held exactly while a query is in its write-back; and the query
\* eventually ends, after which the lock is free.
C15_QueryTerminates ==
  /\ <>(queries = <<>>)
  /\ [](\A i \in 1..Len(queries) :
          /\ queries[i].pc \in {"dial", "read", "parse", "lock", "locked"}
          /\ (queries[i].pc = "parse") => ~IndexFault(queries[i].resp))
  /\ []((mu.w = "query") <=> (\E i \in 1..Len(queries) : queries[i].pc = "locked"))
  /\ []((queries = <<>>) => (mu = [w |-> "", r |-> {}]))
  /\ [][\A i \in 1..Len(queries) :
          /\ Advanced(i) \/ Abandoned(i)
          /\ Abandoned(i) =>
               \/ /\ queries[i].pc = "locked"
                  /\ mu'.w = ""
                  /\ HasFields(heap'[servers[queries[i].addr]], queries[i].f)
               \/ /\ queries[i].pc \in {"dial", "read", "parse"}
                  /\ UNCHANGED <<servers, heap, mu>>]_vars

\* C15 witness: a query has received a datagram that fills the whole buffer
\* with non-zero bytes and is about to parse it.
C15_Witness ==
  /\ Len(queries) = 1
  /\ queries[1].pc = "parse"
  /\ queries[1].n = RespBufLen
  /\ \A k \in 1..RespBufLen : queries[1].resp[k] = 255

\* The queries inside the critical section of lines 237-245.
Writing == {i \in 1..Len(queries) : queries[i].pc = "locked"}

\* The handlers inside handleWeb's read-locked section.
Rendering == {w \in Web : web[w].pc \in {"locked", "render"}}

\* C16: the lock is write-held by a query exactly while that query is in its
\* write-back, by the sweeper exactly while it scans (not while it waits for
\* the ticker or dispatches), by the heartbeat loop exactly inside
\* registerServer, and read-held exactly by the handlers building or
\* rendering a list.  So when nobody is in such a section, whatever number of
\* queries are dialling, reading or waiting, the lock is free for
\* registerServer and for a snapshot.
C16_NoLockDuringIO ==
  /\ mu.w \in {"", "udp", "sweeper", "query"}
  /\ (mu.w = "query") <=> (Writing # {})
  /\ Cardinality(Writing) <= 1
  /\ (mu.w = "sweeper") <=> (sw.pc = "scan")
  /\ (mu.w = "udp") <=> (udp.pc = "locked")
  /\ mu.r = Rendering
  /\ (Writing = {} /\ sw.pc # "scan" /\ udp.pc # "locked") => CanRLock(mu)
  /\ (Writing = {} /\ sw.pc # "scan" /\ udp.pc # "locked" /\ Rendering = {}) =>
       CanLock(mu)

\* C16 witness: registerServer holds the lock while one query waits for its
\* answer and the sweeper is about to dispatch another.
C16_Witness ==
  /\ udp.pc = "locked"
  /\ sw.pc = "dispatch"
  /\ Len(sw.checkList) = 1
  /\ Len(queries) = 1
  /\ queries[1].pc = "read"

\* The four descriptive fields of rec are the placeholders of a new record,
\* or all those of one decoded response.
Whole(rec) ==
  \/ HasFields(rec, [name |-> Placeholder, mapName |-> <<>>, players |-> 0,
                     maxPlayers |-> 0])
  \/ \E d \in Datagrams :
       ParseResponse(ReadInto(d)).ok /\ HasFields(rec, ParseResponse(ReadInto(d)))

\* C17: every row a handler reads, when it builds its list and when it
\* renders it, is whole, and so is every record whenever no writer holds the
\* lock.
C17_WriteBackAtomic ==
  /\ \A w \in Web :
       web[w].pc = "render" =>
         \A k \in 1..Len(web[w].list) :
           Whole(web[w].seen[k]) /\ Whole(Page(w).Servers[k])
  /\ (mu.w = "") => \A a \in DOMAIN servers : Whole(Rec(a))

\* C17 witness: a handler waits for the read lock while a query is in the
\* middle of its stores over the result of another query: the record has
\* the name and map of one response and the counts of the other.
C17_Witness ==
  \E w \in Web :
    /\ web[w].pc = "rlock"
    /\ \E i \in 1..Len(queries) : queries[i].pc = "players"
    /\ ~Whole(Rec("a1"))
    /\ Rec("a1").Players # 0

\* The loop's state u holds the result of a ReadFromUDP.
HasRead(u) == "n" \in DOMAIN u

\* C18: a datagram read with n > 0 makes the loop call registerServer for
\* the sender, whatever is in buf; one read with n = 0 leaves the loop at the
\* receive and the registry and the lock as they are; the loop is inside
\* registerServer only for a datagram with n > 0 and for its sender;
\* registerServer leaves the sender registered as last seen now and returns
\* the loop to the receive; and nothing else the loop does changes the
\* registry.
C18_AdmitOnLength ==
  /\ [](udp.pc \in {"recv", "call", "locked"})
  /\ []((udp.pc \in {"call", "locked"}) =>
          (HasRead(udp) /\ udp.n > 0 /\ udp.addr = udp.remoteAddr))
  /\ [][(udp.pc = "recv" /\ udp' # udp) =>
          /\ HasRead(udp')
          /\ (udp'.n > 0) => (udp'.pc = "call" /\ udp'.addr = udp'.remoteAddr)
          /\ (udp'.n = 0) => (udp'.pc = "recv")
          /\ UNCHANGED <<servers, heap, mu>>]_vars
  /\ [][(udp.pc = "call" /\ udp' # udp) =>
          (udp'.pc = "locked" /\ udp'.addr = udp.addr)]_vars
  /\ [][RegisterStep =>
          /\ udp.addr \in DOMAIN servers'
          /\ heap'[servers'[udp.addr]].LastSeen = now]_vars
  /\ [][(servers' # servers \/ heap' # heap) => RegisterStep]_vars

\* C18 witness: registerServer is under way for a datagram of one zero byte,
\* from a sender that is not registered yet.
C18_Witness ==
  /\ udp.pc = "locked"
  /\ udp.buf = <<0>>
  /\ udp.addr = "a2"
  /\ "a2" \notin DOMAIN servers

\* The fields of the answer to the later-dispatched query in SpecOrder.
NewerFields == ParseResponse(ReadInto(RespB))

\* C19 as claimed: when both queries have written back, the record has the
\* fields of the answer to the later-dispatched one.
C19_NewerCycleWins ==
  (queries = <<>>) => HasFields(Rec("a1"), NewerFields)

\* C19 as amended: each write-back stores its query's fields over whatever
\* the record holds, in the order in which the queries get the lock, which
\* the order of dispatch does not decide; when both have written back the
\* record has all four fields of one of the two answers.
C19_LastWriteBackWins ==
  /\ []((queries = <<>>) =>
          (HasFields(Rec("a1"), OlderQuery.f) \/ HasFields(Rec("a1"), NewerFields)))
  /\ [][\A i \in 1..Len(queries) :
          WriteBackStep(i) =>
            /\ HasFields(heap'[servers["a1"]], queries[i].f)
            /\ (Len(queries) = 1) =>
                 (/\ queries' = <<>>
                  /\ HasFields(heap'[servers'["a1"]], queries[i].f))]_vars

\* C19 witness: the later-dispatched query has written its answer and
\* returned; the earlier-dispatched one now holds the lock and is about to
\* overwrite it.
C19_Witness ==
  /\ queries = <<[OlderQuery EXCEPT !.pc = "locked"]>>
  /\ HasFields(Rec("a1"), NewerFields)

\* The tasks blocked in Lock or RLock: the heartbeat loop at line 116, the
\* sweeper at line 161, queries at line 237, handlers at line 133.
UdpWaiting == udp.pc = "call"

SweepWaiting == sw.pc = "lock"

QueriesWaiting == {i \in 1..Len(queries) : queries[i].pc = "lock"}

WebWaiting == {w \in Web : web[w].pc = "rlock"}

\* C20: every step that takes a task out of its critical section releases
\* the lock it held; whoever holds the lock can take its next step without
\* acquiring anything, so no holder waits for the lock; and under fair
\* scheduling every registerServer call, every sweep that has left the
\* ticker and every snapshot gets the lock and completes, and the lock is
\* free again and again.
C20_LockReleasedNoDeadlock ==
  /\ [][(udp.pc = "locked" /\ udp'.pc # "locked") => mu'.w = ""]_vars
  /\ [][(sw.pc = "scan" /\ sw'.pc # "scan") => mu'.w = ""]_vars
  /\ [][(mu.w = "query" /\ \A i \in 1..Len(queries') : queries'[i].pc # "locked")
          => mu'.w = ""]_vars
  /\ [][\A w \in Web : (w \in mu.r /\ web'[w].pc = "idle") => w \notin mu'.r]_vars
  /\ [](mu.w = "udp" => (udp.pc = "locked" /\ ENABLED RegisterApply))
  /\ [](mu.w = "sweeper" =>
          (sw.pc = "scan" /\ ENABLED ((\E a \in Addr : SweepExamine(a)) \/ SweepUnlock)))
  /\ [](mu.w = "query" =>
          (Writing # {} /\ \A i \in Writing : ENABLED QueryWriteBack(i)))
  /\ [](\A w \in mu.r :
          /\ web[w].pc \in {"locked", "render"}
          /\ ENABLED (WebList(w) \/ WebRender(w)))
  /\ [](mu.w # "" => (~UdpWaiting \/ mu.w # "udp") /\ (~SweepWaiting \/ mu.w # "sweeper"))
  /\ [](QueriesWaiting \cap Writing = {} /\ WebWaiting \cap mu.r = {})
  /\ UdpWaiting ~> (udp.pc = "recv")
  /\ SweepWaiting ~> (sw.pc = "tick")
  /\ \A w \in Web : (w \in WebWaiting) ~> (web[w].pc = "idle")
  /\ []<>CanLock(mu)

\* C20 witness: a query holds the lock in its write-back while a
\* registerServer call, the sweeper and a handler all wait for it.
C20_Witness ==
  /\ mu.w = "query"
  /\ UdpWaiting
  /\ SweepWaiting
  /\ WebWaiting = Web

====
